---- MODULE Spec2Model ----
(***************************************************************************)
(* Model of app.py: a Flask application with a process-wide list `papers`   *)
(* and three routes, index ("/"), personal ("/personal") and paper_detail  *)
(* ("/paper/<int:paper_id>").  Requests are handled concurrently; each      *)
(* request advances through routing and its handler one step at a time.    *)
(***************************************************************************)
EXTENDS Integers, Sequences, FiniteSets, TLC

\* ---------------------------------------------------------------- bounds
NumReqs == 2      \* request slots handled concurrently
MaxLen == 3       \* longest collection drawn by InitAny
MaxId == 2        \* largest id of a record drawn by InitAny

Reqs == 1..NumReqs

\* ------------------------------------------------------------- the data
\* The absent value (Python's None): a value that is no paper record.
None == [absent |-> TRUE]

\* variant: the second record reuses id 1
papers_literal_dup ==
  << [id |-> 1,
      title |-> "Placeholder Paper",
      authors |-> "A. Author",
      journal |-> "Journal X",
      date |-> "2023-01-01",
      summary |-> "This is a placeholder abstract summary with AI insights.",
      keywords |-> <<"AI", "placeholder">>],
     [id |-> 1,
      title |-> "Another Paper",
      authors |-> "B. Researcher",
      journal |-> "Journal Y",
      date |-> "2023-01-02",
      summary |-> "Another sample summary with key results.",
      keywords |-> <<"ML", "test">>] >>

\* app.py:6-25, the list literal
papers_literal ==
  << [id |-> 1,
      title |-> "Placeholder Paper",
      authors |-> "A. Author",
      journal |-> "Journal X",
      date |-> "2023-01-01",
      summary |-> "This is a placeholder abstract summary with AI insights.",
      keywords |-> <<"AI", "placeholder">>],
     [id |-> 2,
      title |-> "Another Paper",
      authors |-> "B. Researcher",
      journal |-> "Journal Y",
      date |-> "2023-01-02",
      summary |-> "Another sample summary with key results.",
      keywords |-> <<"ML", "test">>] >>

\* ------------------------------------------------------------ the paths
\* A path is the sequence of its segments; a segment is a sequence of
\* characters.  "/" is <<>>, "/personal" is <<personal>>, "/paper/99" is
\* <<paper, <<"9","9">>>>.
Digits == {"0", "1", "2", "3", "4", "5", "6", "7", "8", "9"}

DigitVal(c) ==
  CASE c = "0" -> 0 [] c = "1" -> 1 [] c = "2" -> 2 [] c = "3" -> 3
    [] c = "4" -> 4 [] c = "5" -> 5 [] c = "6" -> 6 [] c = "7" -> 7
    [] c = "8" -> 8 [] c = "9" -> 9

\* the <int:...> converter accepts a segment iff it is one or more digits
IsInt(seg) == Len(seg) > 0 /\ \A k \in 1..Len(seg) : seg[k] \in Digits

\* ... and hands the handler its decimal value
RECURSIVE ToInt(_)
ToInt(seg) ==
  IF Len(seg) = 0 THEN 0
  ELSE 10 * ToInt(SubSeq(seg, 1, Len(seg) - 1)) + DigitVal(seg[Len(seg)])

SegPersonal == <<"p", "e", "r", "s", "o", "n", "a", "l">>
SegPaper == <<"p", "a", "p", "e", "r">>

IdSegs == { <<"1">>, <<"2">>, <<"3">>, <<"0", "1">>, <<"9", "9">>,
            <<"a", "b", "c">>, <<"1", "a">> }

Paths == { <<>>, <<SegPersonal>>, <<SegPaper>> }
           \cup { <<SegPaper, s>> : s \in IdSegs }

\* ---------------------------------------------------------------- state
VARIABLES
  papers,     \* the module-level list
  path,       \* path[r]: the path of request r
  pc,         \* pc[r]: where request r is
  endpoint,   \* endpoint[r]: the view function the URL map chose
  paper_id,   \* paper_id[r]: the argument of paper_detail
  it,         \* it[r]: number of elements the generator has consumed
  paper,      \* paper[r]: the local `paper` of paper_detail
  calls,      \* calls[r]: the render_template invocations of request r
  status      \* status[r]: how the request ended

vars == <<papers, path, pc, endpoint, paper_id, it, paper, calls, status>>

\* the path of a request that has not arrived yet
NoPath == << <<"-">> >>

InitReqs ==
  /\ path = [r \in Reqs |-> NoPath]
  /\ pc = [r \in Reqs |-> "idle"]
  /\ endpoint = [r \in Reqs |-> "none"]
  /\ paper_id = [r \in Reqs |-> 0]
  /\ it = [r \in Reqs |-> 0]
  /\ paper = [r \in Reqs |-> None]
  /\ calls = [r \in Reqs |-> <<>>]
  /\ status = [r \in Reqs |-> "none"]

Init == papers = papers_literal /\ InitReqs

\* ------------------------------------------------------------- routing
\* A request with path p arrives.
Receive(r) ==
  /\ pc[r] = "idle"
  /\ \E p \in Paths :
       /\ path' = [path EXCEPT ![r] = p]
       /\ pc' = [pc EXCEPT ![r] = "route"]
  /\ UNCHANGED <<papers, endpoint, paper_id, it, paper, calls, status>>

\* The rule of the URL map that matches path p, "none" when none does.
Endpoint(p) ==
  IF p = <<>> THEN "index"
  ELSE IF p = <<SegPersonal>> THEN "personal"
  ELSE IF Len(p) = 2 /\ p[1] = SegPaper /\ IsInt(p[2]) THEN "paper_detail"
  ELSE "none"

\* variant: the rule is '/paper/<paper_id>', without the int converter
Route_noconv(r) ==
  /\ pc[r] = "route"
  /\ LET p == path[r]
         e == IF Len(p) = 2 /\ p[1] = SegPaper THEN "paper_detail"
              ELSE Endpoint(p)
     IN
       IF e = "none"
       THEN /\ pc' = [pc EXCEPT ![r] = "done"]
            /\ status' = [status EXCEPT ![r] = "404"]
            /\ UNCHANGED <<endpoint, paper_id>>
       ELSE /\ pc' = [pc EXCEPT ![r] = e]
            /\ endpoint' = [endpoint EXCEPT ![r] = e]
            /\ paper_id' = [paper_id EXCEPT ![r] =
                              IF e = "paper_detail" /\ IsInt(p[2])
                              THEN ToInt(p[2]) ELSE @]
            /\ UNCHANGED status
  /\ UNCHANGED <<papers, path, it, paper, calls>>

\* The routing layer dispatches the request or answers 404 itself.
Route(r) ==
  /\ pc[r] = "route"
  /\ LET e == Endpoint(path[r]) IN
       IF e = "none"
       THEN /\ pc' = [pc EXCEPT ![r] = "done"]
            /\ status' = [status EXCEPT ![r] = "404"]
            /\ UNCHANGED <<endpoint, paper_id>>
       ELSE /\ pc' = [pc EXCEPT ![r] = e]
            /\ endpoint' = [endpoint EXCEPT ![r] = e]
            /\ paper_id' = [paper_id EXCEPT ![r] =
                              IF e = "paper_detail" THEN ToInt(path[r][2])
                              ELSE @]
            /\ UNCHANGED status
  /\ UNCHANGED <<papers, path, it, paper, calls>>

\* ------------------------------------------------------------- handlers
\* render_template(t, **kw) as seen from the handler: the call is recorded
\* and its result becomes the response.
Render(r, t, kw) ==
  /\ calls' = [calls EXCEPT ![r] = Append(@, [template |-> t, kwargs |-> kw])]
  /\ status' = [status EXCEPT ![r] = "rendered"]
  /\ pc' = [pc EXCEPT ![r] = "done"]

\* variant: the handler sorts the shared list in place, newest first
index_sort_inplace(r) ==
  /\ pc[r] = "index"
  /\ papers' = [k \in 1..Len(papers) |-> papers[Len(papers) + 1 - k]]
  /\ Render(r, "index.html", [papers |-> papers'])
  /\ UNCHANGED <<path, endpoint, paper_id, it, paper>>

\* variant: the handler passes only a first page, papers[:1]
index_first_page(r) ==
  /\ pc[r] = "index"
  /\ Render(r, "index.html", [papers |-> SubSeq(papers, 1, 1)])
  /\ UNCHANGED <<papers, path, endpoint, paper_id, it, paper>>

index(r) ==
  /\ pc[r] = "index"
  /\ Render(r, "index.html", [papers |-> papers])
  /\ UNCHANGED <<papers, path, endpoint, paper_id, it, paper>>

\* variant: the handler passes the collection, as index does
personal_with_papers(r) ==
  /\ pc[r] = "personal"
  /\ Render(r, "personal.html", [papers |-> papers])
  /\ UNCHANGED <<papers, path, endpoint, paper_id, it, paper>>

personal(r) ==
  /\ pc[r] = "personal"
  /\ Render(r, "personal.html", <<>>)
  /\ UNCHANGED <<papers, path, endpoint, paper_id, it, paper>>

\* paper_detail, line 37: the generator expression is created over
\* iter(papers) and next() starts to drive it.
paper_detail(r) ==
  /\ pc[r] = "paper_detail"
  /\ it' = [it EXCEPT ![r] = 0]
  /\ pc' = [pc EXCEPT ![r] = "next"]
  /\ UNCHANGED <<papers, path, endpoint, paper_id, paper, calls, status>>

\* variant: no filter, next(p for p in papers)
next_nofilter(r) ==
  /\ pc[r] = "next"
  /\ IF it[r] >= Len(papers)
     THEN /\ paper' = [paper EXCEPT ![r] = None]
          /\ UNCHANGED it
     ELSE /\ paper' = [paper EXCEPT ![r] = papers[it[r] + 1]]
          /\ it' = [it EXCEPT ![r] = @ + 1]
  /\ pc' = [pc EXCEPT ![r] = "render"]
  /\ UNCHANGED <<papers, path, endpoint, paper_id, calls, status>>

\* variant: a loop without break, the last match wins
next_last(r) ==
  /\ pc[r] = "next"
  /\ IF it[r] >= Len(papers)
     THEN /\ pc' = [pc EXCEPT ![r] = "render"]
          /\ UNCHANGED <<it, paper>>
     ELSE LET p == papers[it[r] + 1] IN
          /\ it' = [it EXCEPT ![r] = @ + 1]
          /\ paper' = [paper EXCEPT ![r] = IF p.id = paper_id[r] THEN p ELSE @]
          /\ UNCHANGED pc
  /\ UNCHANGED <<papers, path, endpoint, paper_id, calls, status>>

\* variant: the identifier is kept in a module-level variable that the
\* latest request to enter paper_detail overwrites
next_shared(r) ==
  /\ pc[r] = "next"
  /\ LET inside == {q \in Reqs : endpoint[q] = "paper_detail"}
         q == CHOOSE x \in inside : \A y \in inside : y <= x
         id == paper_id[q]
     IN
     IF it[r] >= Len(papers)
     THEN /\ paper' = [paper EXCEPT ![r] = None]
          /\ pc' = [pc EXCEPT ![r] = "render"]
          /\ UNCHANGED it
     ELSE LET p == papers[it[r] + 1] IN
          /\ it' = [it EXCEPT ![r] = @ + 1]
          /\ IF p.id = id
             THEN /\ paper' = [paper EXCEPT ![r] = p]
                  /\ pc' = [pc EXCEPT ![r] = "render"]
             ELSE UNCHANGED <<paper, pc>>
  /\ UNCHANGED <<papers, path, endpoint, paper_id, calls, status>>

\* variant: a record that does not match is never stepped over
next_stuck(r) ==
  /\ pc[r] = "next"
  /\ IF it[r] >= Len(papers)
     THEN /\ paper' = [paper EXCEPT ![r] = None]
          /\ pc' = [pc EXCEPT ![r] = "render"]
          /\ UNCHANGED it
     ELSE LET p == papers[it[r] + 1] IN
          IF p.id = paper_id[r]
          THEN /\ it' = [it EXCEPT ![r] = @ + 1]
               /\ paper' = [paper EXCEPT ![r] = p]
               /\ pc' = [pc EXCEPT ![r] = "render"]
          ELSE UNCHANGED <<it, paper, pc>>
  /\ UNCHANGED <<papers, path, endpoint, paper_id, calls, status>>

\* One turn of the generator: the list iterator is exhausted (next returns
\* the default None), or yields p, which is returned when its id matches
\* and skipped when it does not.
next(r) ==
  /\ pc[r] = "next"
  /\ IF it[r] >= Len(papers)
     THEN /\ paper' = [paper EXCEPT ![r] = None]
          /\ pc' = [pc EXCEPT ![r] = "render"]
          /\ UNCHANGED it
     ELSE LET p == papers[it[r] + 1] IN
          /\ it' = [it EXCEPT ![r] = @ + 1]
          /\ IF p.id = paper_id[r]
             THEN /\ paper' = [paper EXCEPT ![r] = p]
                  /\ pc' = [pc EXCEPT ![r] = "render"]
             ELSE UNCHANGED <<paper, pc>>
  /\ UNCHANGED <<papers, path, endpoint, paper_id, calls, status>>

\* variant: an absent record is answered with abort(404)
paper_detail_render_abort(r) ==
  /\ pc[r] = "render"
  /\ IF paper[r] = None
     THEN /\ status' = [status EXCEPT ![r] = "404"]
          /\ pc' = [pc EXCEPT ![r] = "done"]
          /\ UNCHANGED calls
     ELSE Render(r, "paper_detail.html", [paper |-> paper[r]])
  /\ UNCHANGED <<papers, path, endpoint, paper_id, it, paper>>

\* paper_detail, line 38
paper_detail_render(r) ==
  /\ pc[r] = "render"
  /\ Render(r, "paper_detail.html", [paper |-> paper[r]])
  /\ UNCHANGED <<papers, path, endpoint, paper_id, it, paper>>

Handle(r) ==
  \/ Route(r)
  \/ index(r)
  \/ personal(r)
  \/ paper_detail(r)
  \/ next(r)
  \/ paper_detail_render(r)

Step(r) ==
  \/ Receive(r)
  \/ Handle(r)

Next == \E r \in Reqs : Step(r)

Spec == Init /\ [][Next]_vars

\* The serving runtime runs every request it has accepted to completion.
FairSpec == Spec /\ \A r \in Reqs : WF_vars(Handle(r))

\* ------------------------------------------ the lookup on any collection
Rec(i, t) ==
  [id |-> i,
   title |-> t,
   authors |-> "A. Author",
   journal |-> "Journal X",
   date |-> "2023-01-01",
   summary |-> "summary",
   keywords |-> <<"AI">>]

Records == { Rec(i, t) : i \in 1..MaxId, t \in {"A", "B"} }

Collections == UNION { [1..n -> Records] : n \in 0..MaxLen }

InitAny == papers \in Collections /\ InitReqs

NextAny == Step(1)

SpecAny == InitAny /\ [][NextAny]_vars

\* ------------------------------------------------------------ properties
\* The positions of collection c whose record has id i.
Positions(c, i) == { k \in 1..Len(c) : c[k].id = i }

Least(S) == CHOOSE k \in S : \A j \in S : k <= j

InDetail(r) == pc[r] \in {"paper_detail", "next", "render"}

DetailCall(p) == [template |-> "paper_detail.html", kwargs |-> [paper |-> p]]

\* C1: a paper_detail request whose identifier is the id of a record ends
\* with exactly one render call, of paper_detail.html, whose paper argument
\* is the record with that id (1: 'Placeholder Paper', 2: 'Another Paper'),
\* never another record and never None; before it ends it has rendered
\* nothing.
C1_DetailFound ==
  \A r \in Reqs :
    (endpoint[r] = "paper_detail" /\ Positions(papers, paper_id[r]) # {}) =>
      /\ InDetail(r) => calls[r] = <<>>
      /\ pc[r] = "done" =>
           /\ Len(calls[r]) = 1
           /\ calls[r][1].template = "paper_detail.html"
           /\ DOMAIN calls[r][1].kwargs = {"paper"}
           /\ calls[r][1].kwargs.paper # None
           /\ calls[r][1].kwargs.paper \in
                { papers[k] : k \in Positions(papers, paper_id[r]) }
           /\ calls[r][1].kwargs.paper.id = paper_id[r]
           /\ paper_id[r] = 1 =>
                calls[r][1].kwargs.paper.title = "Placeholder Paper"
           /\ paper_id[r] = 2 =>
                calls[r][1].kwargs.paper.title = "Another Paper"
           /\ status[r] = "rendered"

C1_Witness ==
  \E r \in Reqs :
    /\ path[r] = <<SegPaper, <<"2">>>>
    /\ pc[r] = "done"
    /\ calls[r] = <<DetailCall(papers_literal[2])>>

\* C2: a paper_detail request whose identifier is the id of no record (3,
\* 99) takes the path of a successful lookup: it never ends in an error or
\* a 404, and it ends with one render call of paper_detail.html whose paper
\* argument is None.
C2_DetailMissing ==
  \A r \in Reqs :
    (endpoint[r] = "paper_detail" /\ Positions(papers, paper_id[r]) = {}) =>
      /\ status[r] \in {"none", "rendered"}
      /\ pc[r] = "render" => paper[r] = None
      /\ pc[r] = "done" =>
           /\ calls[r] = <<DetailCall(None)>>
           /\ status[r] = "rendered"

C2_Witness ==
  \E r \in Reqs :
    /\ path[r] = <<SegPaper, <<"9", "9">>>>
    /\ paper_id[r] = 99
    /\ pc[r] = "done"
    /\ calls[r] = <<DetailCall(None)>>

\* C3: whatever requests ran before or run beside it, a finished index
\* request has made one render call, of index.html, whose papers argument
\* is the collection as defined at startup: all records, unchanged, in
\* their order.
C3_IndexFullCollection ==
  \A r \in Reqs :
    (endpoint[r] = "index" /\ pc[r] = "done") =>
      /\ Len(calls[r]) = 1
      /\ calls[r][1].template = "index.html"
      /\ DOMAIN calls[r][1].kwargs = {"papers"}
      /\ calls[r][1].kwargs.papers = papers_literal

C3_Witness ==
  \E r, q \in Reqs :
    /\ r # q
    /\ endpoint[q] = "paper_detail" /\ pc[q] = "done"
    /\ endpoint[r] = "index" /\ pc[r] = "done"
    /\ Len(calls[r]) = 1

\* C4: the collection equals its initial value in every reachable state.
C4_CollectionConstant == papers = papers_literal

C4_Witness ==
  /\ \A r \in Reqs : pc[r] = "done"
  /\ \E r \in Reqs : endpoint[r] = "index"
  /\ \E r \in Reqs : endpoint[r] = "paper_detail" /\ paper[r] = None

\* A segment that is not a non-empty string of digits.
NonInteger(seg) == seg = <<>> \/ \E k \in 1..Len(seg) : seg[k] \notin Digits

\* C5: a request for /paper/<segment> whose segment is not an integer never
\* enters paper_detail and never runs the lookup; the routing layer answers
\* it with 404.
C5_NonIntegerRejected ==
  \A r \in Reqs :
    (Len(path[r]) = 2 /\ path[r][1] = SegPaper /\ NonInteger(path[r][2])) =>
      /\ ~InDetail(r)
      /\ endpoint[r] = "none"
      /\ it[r] = 0 /\ paper[r] = None
      /\ calls[r] = <<>>
      /\ pc[r] = "done" => status[r] = "404"

C5_Witness ==
  \E r \in Reqs :
    /\ path[r] = <<SegPaper, <<"a", "b", "c">>>>
    /\ pc[r] = "done"
    /\ status[r] = "404"

\* C6: a finished personal request has made one render call, of
\* personal.html, with no data arguments, whatever requests preceded it.
C6_PersonalNoData ==
  \A r \in Reqs :
    (endpoint[r] = "personal" /\ pc[r] = "done") =>
      /\ Len(calls[r]) = 1
      /\ calls[r][1].template = "personal.html"
      /\ DOMAIN calls[r][1].kwargs = {}

C6_Witness ==
  \E r, q \in Reqs :
    /\ r # q
    /\ endpoint[q] \in {"index", "paper_detail"} /\ pc[q] = "done"
    /\ endpoint[r] = "personal" /\ pc[r] = "done"
    /\ Len(calls[r]) = 1

\* C7: for any collection and identifier, the lookup of paper_detail yields
\* the record at the least position whose id is the identifier, also when
\* several records have that id, and yields None iff no record has it.
C7_LookupFirstMatch ==
  \A r \in Reqs :
    (endpoint[r] = "paper_detail" /\ pc[r] \in {"render", "done"}) =>
      LET S == Positions(papers, paper_id[r]) IN
      /\ S # {} => paper[r] = papers[Least(S)]
      /\ paper[r] = None <=> S = {}

C7_Witness ==
  \E r \in Reqs :
    /\ pc[r] = "render"
    /\ Cardinality(Positions(papers, paper_id[r])) >= 2
    /\ Least(Positions(papers, paper_id[r])) > 1
    /\ paper[r] = papers[2]
    /\ papers[3] # papers[2]

\* What a request for path p does when it is the only request.
Alone(p) ==
  LET e == Endpoint(p) IN
  IF e = "index"
    THEN <<[template |-> "index.html", kwargs |-> [papers |-> papers_literal]]>>
  ELSE IF e = "personal"
    THEN <<[template |-> "personal.html", kwargs |-> <<>>]>>
  ELSE IF e = "paper_detail"
    THEN LET S == Positions(papers_literal, ToInt(p[2])) IN
         <<DetailCall(IF S = {} THEN None ELSE papers_literal[Least(S)])>>
  ELSE <<>>

\* C8: with the steps of concurrent requests interleaved in any order, the
\* render call of every finished request is the one the request makes when
\* it runs alone: it depends on its path and the collection only.
C8_Interleaving ==
  \A r \in Reqs :
    pc[r] = "done" =>
      /\ calls[r] = Alone(path[r])
      /\ status[r] = IF Endpoint(path[r]) = "none" THEN "404" ELSE "rendered"

C8_Witness ==
  \E r, q \in Reqs :
    /\ r # q
    /\ endpoint[r] = "paper_detail" /\ endpoint[q] = "paper_detail"
    /\ paper_id[r] # paper_id[q]
    /\ pc[r] = "next" /\ it[r] = 1
    /\ pc[q] = "done" /\ calls[q] = <<DetailCall(papers_literal[2])>>

\* C9: the ids of the records of the collection are pairwise distinct
\* integers, so at most one record matches any identifier.
C9_UniqueIds ==
  /\ \A k \in 1..Len(papers) : papers[k].id \in Int
  /\ \A j, k \in 1..Len(papers) : j # k => papers[j].id # papers[k].id
  /\ \A r \in Reqs : Cardinality(Positions(papers, paper_id[r])) <= 1

C9_Witness ==
  \E r \in Reqs :
    /\ pc[r] = "done"
    /\ Cardinality(Positions(papers, paper_id[r])) = 1
    /\ Len(papers) = 2

TemplateOf(e) ==
  IF e = "index" THEN "index.html"
  ELSE IF e = "personal" THEN "personal.html"
  ELSE "paper_detail.html"

\* C10: every request dispatched to a handler eventually finishes having
\* made exactly one render call, of that handler's template; no request
\* ever makes more than one render call, and the lookup never reads past
\* the end of the collection.
C10_Terminates ==
  /\ \A r \in Reqs :
       (pc[r] \in {"index", "personal", "paper_detail"}) ~>
         (/\ pc[r] = "done"
          /\ Len(calls[r]) = 1
          /\ calls[r][1].template = TemplateOf(endpoint[r]))
  /\ [](\A r \in Reqs : Len(calls[r]) <= 1 /\ it[r] <= Len(papers))

C10_Witness ==
  \A r \in Reqs :
    /\ endpoint[r] = "paper_detail"
    /\ pc[r] = "done"
    /\ it[r] = Len(papers)
    /\ Len(calls[r]) = 1

====
